---- MODULE Spec2Model ----
(***************************************************************************)
(* A model of metalang99/gen.h: the indexed code generators               *)
(* (ML99_indexedParams, ML99_indexedFields, ML99_indexedInitializerList,  *)
(* ML99_indexedArgs), evaluated as terms of the Metalang99 rewriting      *)
(* machine, and the statement chaining macros (ML99_INTRODUCE_VAR_TO_STMT,*)
(* ML99_INTRODUCE_NON_NULL_PTR_TO_STMT, ML99_CHAIN_EXPR_STMT), executed   *)
(* as the C for-loops they expand to.                                     *)
(***************************************************************************)
EXTENDS Integers, Sequences, FiniteSets, TLC

VARIABLES
    \* ---- code generators ----
    type_list,   \* the evaluated list argument: a sequence of types
    n,           \* the evaluated natural argument
    gen_op,      \* the generator applied ("none" before)
    out,         \* the tokens the generator rewrote to
    err,         \* a rewrite step was invalid
    rewritten,   \* the sites of gen.h whose terms the machine rewrote
    \* ---- statement chaining ----
    chain,       \* the chain of statement chaining macros before S
    pc,          \* the position of control
    i,           \* the counter of the enclosing for-loop
    guard,       \* the loop variable each chain macro declares, per level
    trace,       \* what this entry evaluated, in order
    sCount,      \* how often S started in this entry
    sCtl,        \* how S left in this entry
    seen,        \* per level: the value of name S saw
    exitedBy     \* how the enclosing loop was left

genVars  == <<type_list, n, gen_op, out, err, rewritten>>
stmtVars == <<chain, pc, i, guard, trace, sCount, sCtl, seen, exitedBy>>
vars     == <<type_list, n, gen_op, out, err, rewritten,
              chain, pc, i, guard, trace, sCount, sCtl, seen, exitedBy>>

(***************************************************************************)
(* Bounds                                                                  *)
(***************************************************************************)
MaxLen == 3
MaxN == 4
MaxChain == 3     \* the longest chain of statement chaining macros
MaxIter == 2      \* the iterations of the enclosing for-loop
MaxRuns == 3      \* S is not started more often than this in one entry

\* Types are token sequences: a type may span several tokens.
Types == { <<"int">>, <<"long", "long">>, <<"const", "char", "*">> }

RECURSIVE SeqsUpTo(_, _)
SeqsUpTo(S, k) ==
    IF k = 0 THEN { <<>> }
    ELSE LET shorter == SeqsUpTo(S, k - 1)
         IN  shorter \cup { Append(s, x) : s \in shorter, x \in S }

(***************************************************************************)
(* Terms of the rewriting machine                                          *)
(***************************************************************************)
\* v(...): a value, the tokens it stands for.
V(site, toks) == [tag |-> "v", site |-> site, toks |-> toks]
\* ML99_call(op, term): the argument term is rewritten first.
Call(site, op, arg) == [tag |-> "call", site |-> site, op |-> op, arg |-> arg]
\* ML99_callUneval(op, args): op_IMPL applied to evaluated arguments.
CallUneval(site, op, args) ==
    [tag |-> "callUneval", site |-> site, op |-> op, args |-> args]
\* ML99_TERMS(a, b): two terms in sequence.
ML99_TERMS(a, b) == [tag |-> "terms", site |-> "TERMS", a |-> a, b |-> b]
\* An invalid rewrite.
Invalid(site) == [tag |-> "invalid", site |-> site]

ML99_EMPTY == <<>>

\* _##i : the token paste of _ and the index.
Paste_(idx) == "_" \o ToString(idx)

ML99_INC(idx) == idx + 1
ML99_IS_NIL(list) == Len(list) = 0
ML99_NAT_EQ(a, b) == a = b
\* The branch primitive selects one of two terms; the other is dropped unrewritten.
ML99_PRIV_IF(cond, x, y) == IF cond THEN x ELSE y

\* The position of the first comma of toks, 0 when there is none.
RECURSIVE FirstComma(_, _)
FirstComma(toks, p) ==
    IF p > Len(toks) THEN 0
    ELSE IF toks[p] = "," THEN p
    ELSE FirstComma(toks, p + 1)

\* ML99_variadicsTail_IMPL(_x, ...): everything after the first item.
ML99_variadicsTail_IMPL(toks) ==
    LET c == FirstComma(toks, 1)
    IN  IF c = 0 THEN Invalid("variadicsTail")
        ELSE V("variadicsTail", SubSeq(toks, c + 1, Len(toks)))

ML99_tuple_IMPL(toks) == V("tuple", <<"(">> \o toks \o <<")">>)

\* ML99_matchWithArgs_IMPL(list, matcher, args): matcher ## nil or matcher ## cons.
ML99_matchWithArgs_IMPL(site, list, matcher, idx) ==
    IF Len(list) = 0
    THEN CallUneval(site, matcher \o "nil", <<idx>>)
    ELSE CallUneval(site, matcher \o "cons", <<Head(list), Tail(list), idx>>)

\* ML99_repeat_IMPL(n, f): f(0) ... f(n - 1).
ML99_repeat_IMPL(site, cnt, f) == CallUneval(site, "repeat", <<cnt, f>>)
ML99_PRIV_repeat(cnt, f) ==
    IF cnt = 0 THEN V("repeat.Z", ML99_EMPTY)
    ELSE ML99_TERMS(ML99_repeat_IMPL("repeat.S", cnt - 1, f),
                    CallUneval("repeat.appl", f, <<cnt - 1>>))

(***************************************************************************)
(* gen.h                                                                   *)
(***************************************************************************)
ML99_braced_IMPL(toks) == V("braced", <<"{">> \o toks \o <<"}">>)

ML99_PRIV_indexedParamsAux_IMPL(list, idx) ==
    ML99_matchWithArgs_IMPL("indexedParamsAux", list, "indexedParamsAux_", idx)

ML99_PRIV_indexedParamsAux_nil_IMPL == V("indexedParamsAux.nil", ML99_EMPTY)

\* Mutant: the index is handed on without the increment.
ParamsAux_cons_SameIndex(x, xs, idx) ==
    ML99_TERMS(V("indexedParamsAux.item", <<",">> \o x \o <<Paste_(idx)>>),
               ML99_PRIV_indexedParamsAux_IMPL(xs, idx))

ML99_PRIV_indexedParamsAux_cons_IMPL(x, xs, idx) ==
    ML99_TERMS(V("indexedParamsAux.item", <<",">> \o x \o <<Paste_(idx)>>),
               ML99_PRIV_indexedParamsAux_IMPL(xs, ML99_INC(idx)))

ML99_indexedParams_IMPL(list) ==
    Call("indexedParams.tuple", "tuple",
         ML99_PRIV_IF(ML99_IS_NIL(list),
                      V("indexedParams.void", <<"void">>),
                      Call("indexedParams.tail", "variadicsTail",
                           ML99_PRIV_indexedParamsAux_IMPL(list, 0))))

ML99_PRIV_indexedFieldsAux_IMPL(list, idx) ==
    ML99_matchWithArgs_IMPL("indexedFieldsAux", list, "indexedFields_", idx)

ML99_PRIV_indexedFields_nil_IMPL == V("indexedFields.nil", ML99_EMPTY)

ML99_PRIV_indexedFields_cons_IMPL(x, xs, idx) ==
    ML99_TERMS(V("indexedFields.item", x \o <<Paste_(idx), ";">>),
               ML99_PRIV_indexedFieldsAux_IMPL(xs, ML99_INC(idx)))

\* Mutant: the traversal starts at index 1.
IndexedFields_FromOne(list) == ML99_PRIV_indexedFieldsAux_IMPL(list, 1)

ML99_indexedFields_IMPL(list) == ML99_PRIV_indexedFieldsAux_IMPL(list, 0)

\* Mutant: the comma follows the item instead of leading it.
IndexedItem_TrailingComma(idx) == V("indexedItem", <<Paste_(idx), ",">>)

ML99_PRIV_indexedItem_IMPL(idx) == V("indexedItem", <<",", Paste_(idx)>>)

\* Mutant: the tail is taken of whichever branch was selected.
INDEXED_ITEMS_TailOutside(cnt, empty_case) ==
    Call("INDEXED_ITEMS.tail", "variadicsTail",
         ML99_PRIV_IF(ML99_NAT_EQ(cnt, 0),
                      empty_case,
                      ML99_repeat_IMPL("INDEXED_ITEMS.repeat", cnt, "indexedItem")))

ML99_PRIV_INDEXED_ITEMS(cnt, empty_case) ==
    ML99_PRIV_IF(ML99_NAT_EQ(cnt, 0),
                 empty_case,
                 Call("INDEXED_ITEMS.tail", "variadicsTail",
                      ML99_repeat_IMPL("INDEXED_ITEMS.repeat", cnt, "indexedItem")))

\* Mutant: the empty case of the initializer list is emptiness.
IndexedInitializerList_EmptyBraces(cnt) ==
    Call("indexedInitializerList.braced", "braced",
         ML99_PRIV_INDEXED_ITEMS(cnt, V("indexedInitializerList.zero", ML99_EMPTY)))

ML99_indexedInitializerList_IMPL(cnt) ==
    Call("indexedInitializerList.braced", "braced",
         ML99_PRIV_INDEXED_ITEMS(cnt, V("indexedInitializerList.zero", <<"0">>)))

ML99_indexedArgs_IMPL(cnt) ==
    ML99_PRIV_INDEXED_ITEMS(cnt, V("indexedArgs.empty", ML99_EMPTY))

(***************************************************************************)
(* The rewriting machine                                                   *)
(***************************************************************************)
\* op_IMPL applied to the rewritten tokens of ML99_call's argument.
CallImpl(op, toks) ==
    CASE op = "tuple"         -> ML99_tuple_IMPL(toks)
      [] op = "braced"        -> ML99_braced_IMPL(toks)
      [] op = "variadicsTail" -> ML99_variadicsTail_IMPL(toks)

\* op_IMPL applied to evaluated arguments.
UnevalImpl(op, args) ==
    CASE op = "indexedParamsAux_nil"  -> ML99_PRIV_indexedParamsAux_nil_IMPL
      [] op = "indexedParamsAux_cons" ->
             ML99_PRIV_indexedParamsAux_cons_IMPL(args[1], args[2], args[3])
      [] op = "indexedFields_nil"     -> ML99_PRIV_indexedFields_nil_IMPL
      [] op = "indexedFields_cons"    ->
             ML99_PRIV_indexedFields_cons_IMPL(args[1], args[2], args[3])
      [] op = "indexedItem"           -> ML99_PRIV_indexedItem_IMPL(args[1])
      [] op = "repeat"                -> ML99_PRIV_repeat(args[1], args[2])

Result(toks, e, sites) == [toks |-> toks, err |-> e, sites |-> sites]

\* The rewriting of a term down to its tokens: the tokens, whether a step was
\* invalid, and the sites of the terms rewritten on the way.
RECURSIVE ML99_EVAL(_)
ML99_EVAL(t) ==
    CASE t.tag = "v" -> Result(t.toks, FALSE, {t.site})
      [] t.tag = "invalid" -> Result(<<>>, TRUE, {t.site})
      [] t.tag = "terms" ->
            LET a == ML99_EVAL(t.a)
                b == ML99_EVAL(t.b)
            IN  Result(a.toks \o b.toks, a.err \/ b.err, a.sites \cup b.sites)
      [] t.tag = "call" ->
            LET a == ML99_EVAL(t.arg)
                r == ML99_EVAL(CallImpl(t.op, a.toks))
            IN  IF a.err THEN Result(<<>>, TRUE, a.sites \cup {t.site})
                ELSE Result(r.toks, r.err, a.sites \cup r.sites \cup {t.site})
      [] t.tag = "callUneval" ->
            LET r == ML99_EVAL(UnevalImpl(t.op, t.args))
            IN  Result(r.toks, r.err, r.sites \cup {t.site})

(***************************************************************************)
(* The generators as operations                                            *)
(***************************************************************************)
Apply(op, term) ==
    LET r == ML99_EVAL(term)
    IN  /\ gen_op = "none"
        /\ gen_op' = op
        /\ out' = r.toks
        /\ err' = r.err
        /\ rewritten' = r.sites
        /\ UNCHANGED <<type_list, n>>

ML99_indexedParams ==
    /\ Apply("indexedParams", ML99_indexedParams_IMPL(type_list))
    /\ UNCHANGED stmtVars

ML99_indexedFields ==
    /\ Apply("indexedFields", ML99_indexedFields_IMPL(type_list))
    /\ UNCHANGED stmtVars

ML99_indexedInitializerList ==
    /\ Apply("indexedInitializerList", ML99_indexedInitializerList_IMPL(n))
    /\ UNCHANGED stmtVars

ML99_indexedArgs ==
    /\ Apply("indexedArgs", ML99_indexedArgs_IMPL(n))
    /\ UNCHANGED stmtVars

StmtIdle ==
    /\ chain = <<>>
    /\ pc = [at |-> "done", lvl |-> 0]
    /\ i = 0
    /\ guard = <<>>
    /\ trace = <<>>
    /\ sCount = 0
    /\ sCtl = "none"
    /\ seen = <<>>
    /\ exitedBy = "none"

InitGen ==
    /\ type_list \in SeqsUpTo(Types, MaxLen)
    /\ n \in 0..MaxN
    /\ gen_op = "none"
    /\ out = <<>>
    /\ err = FALSE
    /\ rewritten = {}
    /\ StmtIdle

NextGen ==
    \/ ML99_indexedParams
    \/ ML99_indexedFields
    \/ ML99_indexedInitializerList
    \/ ML99_indexedArgs

SpecGen == InitGen /\ [][NextGen]_vars

(***************************************************************************)
(* Statement chaining: each macro is a for-loop                            *)
(*     for (init; cond; step)                                              *)
(* whose body is the statement that follows.  A loop is the name of its    *)
(* variable, the values its init clause may give it, the value its cond    *)
(* clause compares against (the loop runs while the variable differs), the *)
(* value its step clause assigns, the argument it evaluates (ev) and the   *)
(* clauses that evaluate it (evalIn).                                      *)
(* Pointer values: 0 is the null pointer, 1 is the pointer made of the      *)
(* integer 1, 2 and 3 are the addresses of objects.                        *)
(***************************************************************************)
NullPtr == 0
OnePtr == 1
\* What init may evaluate to: null or an object; what S may assign: another object.
InitValues == {NullPtr, 2}
NewValues == {3}
OutOfScope == -1
PtrNames == {"x_ptr", "y_ptr"}

\* Mutant: the step clause stores the null pointer again.
VAR_TO_STMT_StepZero ==
    [name |-> "ml99_priv_break", init |-> {NullPtr}, exit |-> OnePtr,
     step |-> NullPtr, ev |-> "decl", evalIn |-> {"init"}]

ML99_INTRODUCE_VAR_TO_STMT ==
    [name |-> "ml99_priv_break", init |-> {NullPtr}, exit |-> OnePtr,
     step |-> OnePtr, ev |-> "decl", evalIn |-> {"init"}]

\* Mutant: the cond clause compares against the pointer 1, as the variable form does.
NON_NULL_PTR_CondOne(name) ==
    [name |-> name, init |-> InitValues, exit |-> OnePtr,
     step |-> OnePtr, ev |-> "init", evalIn |-> {"init"}]

\* Mutant: init is evaluated again whenever the guard is tested.
NON_NULL_PTR_InitInCond(name) ==
    [name |-> name, init |-> InitValues, exit |-> NullPtr,
     step |-> NullPtr, ev |-> "init", evalIn |-> {"init", "cond"}]

ML99_INTRODUCE_NON_NULL_PTR_TO_STMT(name) ==
    [name |-> name, init |-> InitValues, exit |-> NullPtr,
     step |-> NullPtr, ev |-> "init", evalIn |-> {"init"}]

\* Mutant: expr sits in the step clause, after the following statement.
CHAIN_EXPR_STMT_ExprInStep ==
    [name |-> "ml99_priv_expr_stmt_break", init |-> {0}, exit |-> 1,
     step |-> 1, ev |-> "expr", evalIn |-> {"step"}]

\* Mutant: the step clause stores 0 again.
CHAIN_EXPR_STMT_StepZero ==
    [name |-> "ml99_priv_expr_stmt_break", init |-> {0}, exit |-> 1,
     step |-> 0, ev |-> "expr", evalIn |-> {"init"}]

ML99_CHAIN_EXPR_STMT ==
    [name |-> "ml99_priv_expr_stmt_break", init |-> {0}, exit |-> 1,
     step |-> 1, ev |-> "expr", evalIn |-> {"init"}]

Elements ==
    { [kind |-> "VAR", name |-> "ml99_priv_break"],
      [kind |-> "EXPR", name |-> "ml99_priv_expr_stmt_break"] }
    \cup { [kind |-> "PTR", name |-> nm] : nm \in PtrNames }

Loop(el) ==
    CASE el.kind = "VAR"  -> ML99_INTRODUCE_VAR_TO_STMT
      [] el.kind = "PTR"  -> ML99_INTRODUCE_NON_NULL_PTR_TO_STMT(el.name)
      [] el.kind = "EXPR" -> ML99_CHAIN_EXPR_STMT

Max(S) == CHOOSE x \in S : \A y \in S : y <= x

\* The declaration a use of name at level k refers to: the innermost
\* enclosing one, which shadows the outer ones (0: none in scope).
ML99_PRIV_SHADOWS(name, k) ==
    LET decls == { j \in 1..k : Loop(chain[j]).name = name }
    IN  IF decls = {} THEN 0 ELSE Max(decls)

At(a, k) == [at |-> a, lvl |-> k]
K == Len(chain)

\* Where control goes when the loop of level k is left.
AfterLoop(k) == IF k = 1 THEN At("outer_step", 0) ELSE At("step", k - 1)
\* The body of the loop of level k: the next macro of the chain, or S.
Body(k) == IF k < K THEN At("init", k + 1) ELSE At("S", 0)

Event(e, k, v) == [ev |-> e, lvl |-> k, val |-> v]
\* The argument of the macro is evaluated by the clauses that hold it.
Emit(tr, L, clause, k, v) ==
    IF clause \in L.evalIn THEN Append(tr, Event(L.ev, k, v)) ELSE tr

NoHistory ==
    /\ trace' = <<>>
    /\ sCount' = 0
    /\ sCtl' = "none"
    /\ seen' = [k \in 1..K |-> OutOfScope]

\* for (int i = 0; i < MaxIter; ...): the test of the enclosing loop.
OuterTest ==
    /\ pc.at = "outer_test"
    /\ IF i < MaxIter
       THEN /\ pc' = IF K = 0 THEN At("S", 0) ELSE At("init", 1)
            /\ UNCHANGED exitedBy
       ELSE /\ pc' = At("done", 0)
            /\ exitedBy' = "test"
    /\ UNCHANGED <<chain, i, guard, trace, sCount, sCtl, seen>>
    /\ UNCHANGED genVars

\* i++ of the enclosing loop; the next entry starts with a clean history.
OuterStep ==
    /\ pc.at = "outer_step"
    /\ i' = i + 1
    /\ pc' = At("outer_test", 0)
    /\ NoHistory
    /\ UNCHANGED <<chain, guard, exitedBy>>
    /\ UNCHANGED genVars

\* The init clause of the loop of level pc.lvl.
LoopInit ==
    /\ pc.at = "init"
    /\ LET k == pc.lvl
           L == Loop(chain[k])
       IN  \E v \in L.init :
              /\ guard' = [guard EXCEPT ![k] = v]
              /\ trace' = Emit(trace, L, "init", k, v)
              /\ pc' = At("test", k)
    /\ UNCHANGED <<chain, i, sCount, sCtl, seen, exitedBy>>
    /\ UNCHANGED genVars

\* The cond clause: the body runs while the variable differs from L.exit.
LoopTest ==
    /\ pc.at = "test"
    /\ LET k == pc.lvl
           L == Loop(chain[k])
           var == ML99_PRIV_SHADOWS(L.name, k)
       IN  /\ trace' = Emit(trace, L, "cond", k, guard[var])
           /\ IF guard[var] # L.exit
              THEN /\ pc' = Body(k)
                   /\ UNCHANGED guard
              ELSE /\ pc' = AfterLoop(k)
                   /\ guard' = [guard EXCEPT ![k] = OutOfScope]
    /\ UNCHANGED <<chain, i, sCount, sCtl, seen, exitedBy>>
    /\ UNCHANGED genVars

\* The step clause.
LoopStep ==
    /\ pc.at = "step"
    /\ LET k == pc.lvl
           L == Loop(chain[k])
           var == ML99_PRIV_SHADOWS(L.name, k)
       IN  /\ guard' = [guard EXCEPT ![var] = L.step]
           /\ trace' = Emit(trace, L, "step", k, L.step)
           /\ pc' = At("test", k)
    /\ UNCHANGED <<chain, i, sCount, sCtl, seen, exitedBy>>
    /\ UNCHANGED genVars

\* What S may assign: nothing (level 0), or an object to a pointer it names.
Assignments ==
    { [lvl |-> 0, val |-> 0] }
    \cup { [lvl |-> ML99_PRIV_SHADOWS(nm, K), val |-> v] :
              nm \in { x \in PtrNames : ML99_PRIV_SHADOWS(x, K) # 0 },
              v \in NewValues }

\* The terminal statement S: it may assign to a pointer of the chain, and
\* completes normally or executes break or continue, which C binds to the
\* innermost enclosing loop.
StmtS ==
    /\ pc.at = "S"
    /\ sCount < MaxRuns
    /\ \E ctl \in {"normal", "break", "continue"}, asg \in Assignments :
          LET g == IF asg.lvl = 0 THEN guard
                   ELSE [guard EXCEPT ![asg.lvl] = asg.val]
          IN  /\ seen' = guard
              /\ sCount' = sCount + 1
              /\ sCtl' = ctl
              /\ trace' = Append(trace, Event("S", asg.lvl, asg.val))
              /\ IF ctl = "break"
                 THEN IF K = 0
                      THEN /\ pc' = At("done", 0)
                           /\ exitedBy' = "break"
                           /\ guard' = g
                      ELSE /\ pc' = AfterLoop(K)
                           /\ guard' = [g EXCEPT ![K] = OutOfScope]
                           /\ UNCHANGED exitedBy
                 ELSE /\ pc' = IF K = 0 THEN At("outer_step", 0) ELSE At("step", K)
                      /\ guard' = g
                      /\ UNCHANGED exitedBy
    /\ UNCHANGED <<chain, i>>
    /\ UNCHANGED genVars

GenIdle ==
    /\ type_list = <<>>
    /\ n = 0
    /\ gen_op = "none"
    /\ out = <<>>
    /\ err = FALSE
    /\ rewritten = {}

InitStmt ==
    /\ chain \in SeqsUpTo(Elements, MaxChain)
    /\ pc = At("outer_test", 0)
    /\ i = 0
    /\ guard = [k \in 1..Len(chain) |-> OutOfScope]
    /\ trace = <<>>
    /\ sCount = 0
    /\ sCtl = "none"
    /\ seen = [k \in 1..Len(chain) |-> OutOfScope]
    /\ exitedBy = "none"
    /\ GenIdle

NextStmt ==
    \/ OuterTest
    \/ LoopInit
    \/ LoopTest
    \/ LoopStep
    \/ StmtS
    \/ OuterStep

SpecStmt == InitStmt /\ [][NextStmt]_vars

\* A sequential program always takes its next step.
FairStmt == SpecStmt /\ WF_vars(NextStmt)

(***************************************************************************)
(* Properties of the generators                                            *)
(***************************************************************************)
\* The items of toks between its separators sep, in order.
RECURSIVE Split(_, _)
Split(toks, sep) ==
    LET RECURSIVE upTo(_)
        upTo(p) == IF p > Len(toks) \/ toks[p] = sep THEN p ELSE upTo(p + 1)
        c == upTo(1)
    IN  IF c > Len(toks) THEN << toks >>
        ELSE << SubSeq(toks, 1, c - 1) >> \o Split(SubSeq(toks, c + 1, Len(toks)), sep)

Inner(toks) == SubSeq(toks, 2, Len(toks) - 1)
IndexName(p) == "_" \o ToString(p - 1)

\* C2: for every list L of length n, ML99_indexedParams rewrites to (void) when
\* n = 0 and otherwise to a parenthesised group of exactly n comma-separated
\* items, the p-th being the p-th type of L followed by _p (counting from 0),
\* with no leading or trailing comma.
C2_IndexedParams ==
    gen_op = "indexedParams" =>
        /\ ~err
        /\ Len(out) >= 2 /\ Head(out) = "(" /\ out[Len(out)] = ")"
        /\ Len(type_list) = 0 => out = <<"(", "void", ")">>
        /\ Len(type_list) > 0 =>
              LET items == Split(Inner(out), ",")
              IN  /\ Len(items) = Len(type_list)
                  /\ \A p \in 1..Len(items) :
                        items[p] = type_list[p] \o << IndexName(p) >>

C2_Witness ==
    /\ gen_op = "indexedParams"
    /\ type_list = << <<"int">>, <<"long", "long">>, <<"const", "char", "*">> >>
    /\ out = << "(", "int", "_0", ",", "long", "long", "_1", ",",
                "const", "char", "*", "_2", ")" >>

\* C3: for every natural n, ML99_indexedInitializerList rewrites to { 0 } when
\* n = 0 and otherwise to braces around exactly n items _0 ... _{n-1} in
\* increasing order; it never rewrites to an empty pair of braces.
C3_IndexedInitializerList ==
    gen_op = "indexedInitializerList" =>
        /\ ~err
        /\ Len(out) >= 2 /\ Head(out) = "{" /\ out[Len(out)] = "}"
        /\ out # <<"{", "}">>
        /\ n = 0 => out = <<"{", "0", "}">>
        /\ n > 0 =>
              LET items == Split(Inner(out), ",")
              IN  /\ Len(items) = n
                  /\ \A p \in 1..Len(items) : items[p] = << IndexName(p) >>

C3_Witness ==
    /\ gen_op = "indexedInitializerList"
    /\ n = 3
    /\ out = <<"{", "_0", ",", "_1", ",", "_2", "}">>

\* C4: for every natural n, ML99_indexedArgs rewrites to exactly n
\* comma-separated items _0 ... _{n-1} in increasing order with no leading
\* comma, and to the empty fragment when n = 0.
C4_IndexedArgs ==
    gen_op = "indexedArgs" =>
        /\ ~err
        /\ n = 0 => out = <<>>
        /\ n > 0 =>
              LET items == Split(out, ",")
              IN  /\ Len(items) = n
                  /\ \A p \in 1..Len(items) : items[p] = << IndexName(p) >>

C4_Witness ==
    /\ gen_op = "indexedArgs"
    /\ n = 3
    /\ out = <<"_0", ",", "_1", ",", "_2">>

\* C5: for every list L of length n, ML99_indexedFields rewrites to the empty
\* fragment when n = 0 (no void) and otherwise to exactly n fields in list
\* order, the p-th being the p-th type of L followed by _p, each field
\* followed by a semicolon, the last one included.
C5_IndexedFields ==
    gen_op = "indexedFields" =>
        /\ ~err
        /\ Len(type_list) = 0 => out = <<>>
        /\ Len(type_list) > 0 =>
              /\ out[Len(out)] = ";"
              /\ LET items == Split(SubSeq(out, 1, Len(out) - 1), ";")
                 IN  /\ Len(items) = Len(type_list)
                     /\ \A p \in 1..Len(items) :
                           items[p] = type_list[p] \o << IndexName(p) >>

C5_Witness ==
    /\ gen_op = "indexedFields"
    /\ type_list = << <<"int">>, <<"long", "long">>, <<"const", "char", "*">> >>
    /\ out = << "int", "_0", ";", "long", "long", "_1", ";",
                "const", "char", "*", "_2", ";" >>

\* C8: only the selected branch is rewritten. With an empty list
\* (indexedParams) or n = 0 (indexedArgs, indexedInitializerList) the branch
\* that drops the leading item is never rewritten and no rewrite is invalid;
\* otherwise that branch is rewritten and the empty-case fragment never is.
C8_OnlySelectedBranch ==
    /\ gen_op = "indexedParams" =>
          IF Len(type_list) = 0
          THEN /\ ~err
               /\ "indexedParams.void" \in rewritten
               /\ rewritten \cap {"indexedParams.tail", "variadicsTail",
                                  "indexedParamsAux"} = {}
          ELSE /\ "indexedParams.tail" \in rewritten
               /\ "indexedParams.void" \notin rewritten
    /\ gen_op = "indexedInitializerList" =>
          IF n = 0
          THEN /\ ~err
               /\ "indexedInitializerList.zero" \in rewritten
               /\ rewritten \cap {"INDEXED_ITEMS.tail", "variadicsTail",
                                  "INDEXED_ITEMS.repeat"} = {}
          ELSE /\ "INDEXED_ITEMS.tail" \in rewritten
               /\ "indexedInitializerList.zero" \notin rewritten
    /\ gen_op = "indexedArgs" =>
          IF n = 0
          THEN /\ ~err
               /\ "indexedArgs.empty" \in rewritten
               /\ rewritten \cap {"INDEXED_ITEMS.tail", "variadicsTail",
                                  "INDEXED_ITEMS.repeat"} = {}
          ELSE /\ "INDEXED_ITEMS.tail" \in rewritten
               /\ "indexedArgs.empty" \notin rewritten

C8_Witness ==
    /\ gen_op = "indexedInitializerList"
    /\ n = 0
    /\ rewritten = {"indexedInitializerList.braced", "braced",
                    "indexedInitializerList.zero"}

(***************************************************************************)
(* Properties of statement chaining                                        *)
(***************************************************************************)
Levels(kind) == { k \in 1..K : chain[k].kind = kind }
\* Where this entry's trace holds the event e of level k.
Positions(e, k) == { q \in 1..Len(trace) : trace[q].ev = e /\ trace[q].lvl = k }
SPos == { q \in 1..Len(trace) : trace[q].ev = "S" }
\* Some pointer of the chain was initialised to null in this entry.
NullInit == \E q \in 1..Len(trace) : trace[q].ev = "init" /\ trace[q].val = NullPtr
\* S assigned an object to a pointer of the chain in this entry.
Assigned == \E q \in SPos : trace[q].lvl # 0
\* Every loop of the chain has been left.
ChainLeft == pc.at = "outer_step" /\ \A k \in 1..K : guard[k] = OutOfScope
\* Control is on its way out of the chain: S does not start again and every
\* guard still to be tested already holds the value that ends its loop.
LeavingChain ==
    /\ pc.at \in {"step", "test", "outer_step"}
    /\ pc.at = "test" => guard[pc.lvl] = Loop(chain[pc.lvl]).exit
    /\ sCount = 1
    /\ exitedBy = "none"

\* Control is inside the statement that follows the macro of level k.
InBody(k) == pc.at = "S" \/ (pc.at \in {"init", "test", "step"} /\ pc.lvl > k)

\* C1: for every chain of k >= 1 statement chaining macros (any mix, same
\* kinds nested and shadowing each other included) before a statement S that
\* completes normally, an entry executes S exactly once (never twice; not
\* zero times unless a pointer was initialised to null) and then leaves
\* every loop of the chain.
C1_ExactlyOnce ==
    /\ [](K >= 1 => sCount <= 1)
    /\ [](K >= 1 /\ pc.at = "outer_step" /\ ~NullInit => sCount = 1)
    /\ (K >= 1 /\ sCtl = "normal") ~> (ChainLeft /\ sCount = 1)

C1_Witness ==
    /\ K = 3
    /\ chain[1].kind = "VAR" /\ chain[2].kind = "VAR" /\ chain[3].kind = "EXPR"
    /\ sCtl = "normal"
    /\ sCount = 1
    /\ ChainLeft

\* C6: ML99_CHAIN_EXPR_STMT evaluates expr exactly once per entry into the
\* construct and before S starts; several of them evaluate their
\* expressions once each, in textual order, all before S.
C6_ExprOnceBeforeS ==
    \A k \in Levels("EXPR") :
        /\ Cardinality(Positions("expr", k)) <= 1
        /\ guard[k] # OutOfScope => Cardinality(Positions("expr", k)) = 1
        /\ pc.at = "outer_step" /\ ~NullInit => Cardinality(Positions("expr", k)) = 1
        /\ \A q \in SPos : \E p \in Positions("expr", k) : p < q
        /\ \A k2 \in Levels("EXPR") :
              k < k2 => \A p2 \in Positions("expr", k2) :
                            \E p \in Positions("expr", k) : p < p2

C6_Witness ==
    /\ K = 2
    /\ chain[1].kind = "EXPR" /\ chain[2].kind = "EXPR"
    /\ trace = << Event("expr", 1, 0), Event("expr", 2, 0), Event("S", 0, 0) >>
    /\ pc.at = "outer_step"

\* C7: ML99_INTRODUCE_NON_NULL_PTR_TO_STMT evaluates init exactly once per
\* entry into the construct, before the following statement, and not again
\* when the guard is tested after the statement has run; during the
\* following statement name holds the value init produced.
C7_InitOnce ==
    \A k \in Levels("PTR") :
        /\ Cardinality(Positions("init", k)) <= 1
        /\ guard[k] # OutOfScope => Cardinality(Positions("init", k)) = 1
        /\ SPos # {} => Cardinality(Positions("init", k)) = 1
        /\ \A q \in SPos :
              \E p \in Positions("init", k) : p < q /\ seen[k] = trace[p].val
        /\ InBody(k) /\ SPos = {} =>
              \A p \in Positions("init", k) : guard[k] = trace[p].val

C7_Witness ==
    /\ K = 1
    /\ chain[1].kind = "PTR"
    /\ trace = << Event("init", 1, 2), Event("S", 0, 0) >>
    /\ seen[1] = 2
    /\ pc = At("test", 1)
    /\ guard[1] = NullPtr

\* C9 as claimed: S after a chaining macro has the control-flow effect of S
\* alone: break leaves the enclosing loop, continue moves it on.
C9_Original ==
    /\ sCtl = "break" => pc.at = "done" /\ exitedBy = "break"
    /\ sCtl = "continue" => LeavingChain

\* C9 as amended: continue in S moves the enclosing loop to its next
\* iteration as it does without the chain; break in S leaves the enclosing
\* loop only without a chain, and behind a chain leaves the loops of the
\* chain alone, so that the enclosing loop goes on to its next iteration.
C9_BreakLeavesChainOnly ==
    /\ sCtl = "break" /\ K = 0 => pc.at = "done" /\ exitedBy = "break"
    /\ sCtl = "break" /\ K >= 1 => LeavingChain
    /\ sCtl = "continue" => LeavingChain

C9_Witness ==
    /\ K = 2
    /\ sCtl = "break"
    /\ ChainLeft
    /\ i = 0

\* C10: the pointer is itself the guard: when init evaluates to null the
\* following statement runs zero times (init still evaluated once); when the
\* following statement assigns an object to name, the construct still ends
\* after that single pass.
C10_PointerIsGuard ==
    /\ [](\A k \in Levels("PTR") :
             (\E p \in Positions("init", k) : trace[p].val = NullPtr) =>
                 /\ sCount = 0
                 /\ SPos = {}
                 /\ Cardinality(Positions("init", k)) = 1)
    /\ [](Assigned => sCount = 1)
    /\ Assigned ~> (ChainLeft /\ sCount = 1)

C10_Witness ==
    /\ K >= 1
    /\ Assigned
    /\ sCtl = "normal"
    /\ ChainLeft
    /\ sCount = 1

====
